---- MODULE Spec2Model ----
(***************************************************************************)
(* Model of tmux/create_tmux_sessions.py: a driver that creates one tmux   *)
(* session per configured server, lists them and attaches to one.          *)
(*                                                                         *)
(* A Python string is modelled as a sequence of tokens (a token is a TLA+  *)
(* string), so that str.split and the f-strings of the source are computed *)
(* and not assumed: "db=root@db" is <<"db", "=", "root@db">>.              *)
(*                                                                         *)
(* The tmux server is the shared session table `table`.  A target          *)
(* "-t name" is resolved to the session with exactly that name.            *)
(***************************************************************************)
EXTENDS Integers, Sequences, FiniteSets, TLC

\* ------------------------------------------------------------------ bounds
\* how many state-changing tmux commands may fail for reasons of their own
MaxFail == 1
\* how many times another user of the tmux server acts during one run
MaxOther == 1

\* ------------------------------------------------------------ configuration
EntryDb == <<"db", "=", "root@db">>
EntryWeb == <<"web", "=", "root@web">>
\* the values the list SERVERS is given in the runs explored
ServerLists == {<<EntryDb>>, <<EntryDb, EntryWeb>>, <<EntryWeb, EntryDb>>, <<EntryDb, EntryDb>>}
SSH_KEY == <<"~/.ssh/id_ed25519">>
\* session names another user of the server may hold
OtherNames == {<<"db">>, <<"misc">>}
\* the order in which the server lists its sessions (by name)
ListOrder == <<<<"db">>, <<"misc">>, <<"web">>>>
AllNames == {ListOrder[x] : x \in 1..Len(ListOrder)}

\* --------------------------------------------------------- string functions
\* str.split(sep): the pieces between the occurrences of sep
RECURSIVE split(_, _)
split(s, sep) ==
  IF \A x \in 1..Len(s) : s[x] # sep
  THEN <<s>>
  ELSE LET x == CHOOSE y \in 1..Len(s) : s[y] = sep /\ \A z \in 1..(y - 1) : s[z] # sep
       IN <<SubSeq(s, 1, x - 1)>> \o split(SubSeq(s, x + 1, Len(s)), sep)

\* server.split('=')[0]
session_name_of(server) == split(server, "=")[1]
\* server.split('=')[1]
server_address_of(server) == split(server, "=")[2]
\* f"ssh -t -i {SSH_KEY} {server}"
ssh_command(server) == <<"ssh", "-t", "-i">> \o SSH_KEY \o server
\* f"ssh -t -i {SSH_KEY} {server} 'htop'"
ssh_htop_command(server) == <<"ssh", "-t", "-i">> \o SSH_KEY \o server \o <<"'htop'">>
\* f"{session_name}:monitoring" and f"{session_name}:main"
window_target(session_name, window) == session_name \o <<":", window>>

\* ------------------------------------------------------------- tmux server
\* a session as tmux creates it: one window named after the shell, one pane
FreshSession ==
  [windows |-> <<[name |-> "sh", panes |-> <<<<>>>>, activePane |-> 1]>>, active |-> 1]

TargetSession(t) == split(t, ":")[1]
HasWindowPart(t) == Len(split(t, ":")) > 1
TargetWindowName(t) == split(t, ":")[2][1]

\* whether target t names a session, and a window of it, that exist
Resolves(T, t) ==
  /\ TargetSession(t) \in DOMAIN T
  /\ HasWindowPart(t) =>
       \E w \in 1..Len(T[TargetSession(t)].windows) :
          T[TargetSession(t)].windows[w].name = TargetWindowName(t)

\* index of the window target t names: the named one, or the active one
WindowIndex(T, t) ==
  LET s == T[TargetSession(t)]
  IN IF HasWindowPart(t)
     THEN CHOOSE w \in 1..Len(s.windows) :
            /\ s.windows[w].name = TargetWindowName(t)
            /\ \A v \in 1..(w - 1) : s.windows[v].name # TargetWindowName(t)
     ELSE s.active

SetWindow(T, t, w, win) ==
  [T EXCEPT ![TargetSession(t)].windows[w] = win]

\* tmux has-session -t name: exit code
TmuxHasSession(T, name) == IF name \in DOMAIN T THEN 0 ELSE 1

\* tmux new-session -d -s name
TmuxNewSessionOk(T, name) == name \notin DOMAIN T
TmuxNewSession(T, name) == (name :> FreshSession) @@ T

\* tmux kill-session -t name (issued by another user only)
TmuxKillSession(T, name) == [n \in (DOMAIN T) \ {name} |-> T[n]]

\* tmux rename-window -t t new
TmuxRenameWindow(T, t, new) ==
  LET w == WindowIndex(T, t)
  IN SetWindow(T, t, w, [T[TargetSession(t)].windows[w] EXCEPT !.name = new])

\* tmux send-keys -t t line C-m: the line is typed into the active pane
TmuxSendKeys(T, t, line) ==
  LET w == WindowIndex(T, t)
      win == T[TargetSession(t)].windows[w]
  IN SetWindow(T, t, w, [win EXCEPT !.panes[win.activePane] = Append(@, line)])

\* tmux split-window -h -t t: a new pane, which becomes the active one
TmuxSplitWindow(T, t) ==
  LET w == WindowIndex(T, t)
      win == T[TargetSession(t)].windows[w]
  IN SetWindow(T, t, w, [win EXCEPT !.panes = Append(@, <<>>),
                                    !.activePane = Len(win.panes) + 1])

\* tmux new-window -t t -n name: a new window, which becomes the active one
TmuxNewWindow(T, t, name) ==
  LET s == T[TargetSession(t)]
  IN [T EXCEPT ![TargetSession(t)] =
        [windows |-> Append(s.windows, [name |-> name, panes |-> <<<<>>>>, activePane |-> 1]),
         active |-> Len(s.windows) + 1]]

\* tmux select-window -t session:window
TmuxSelectWindow(T, t) ==
  [T EXCEPT ![TargetSession(t)].active = WindowIndex(T, t)]

\* tmux list-sessions -F "#{session_name}": one line per session
TmuxListSessions(T) == SelectSeq(ListOrder, LAMBDA n : n \in DOMAIN T)

\* ------------------------------------------------------------------- state
VARIABLES
  SERVERS,           \* the configured list of "name=address" strings
  table,             \* the tmux server's sessions: name -> windows and panes
  pc,                \* the statement main() is at
  idx,               \* position of the running `for server in SERVERS` loop
  issued,            \* every external command run so far, in order, with its exit code
  ret,               \* what the last call of create_server_session returned
  session_count,     \* main's session_count
  sessions,          \* main's sessions (the menu)
  selected_session,  \* main's selected_session
  target,            \* the argument attach_session is called with
  environ,           \* os.environ["TMUX"] as attach_session reads it
  input_read,        \* whether input() has been called
  typed,             \* what input() returned
  counted,           \* the sessions listed when session_count was computed
  tmux_installed,    \* whether a tmux program is on the PATH
  command_on_path,   \* whether a program called "command" is on the PATH
  outcome,           \* how the process ended
  failures,          \* commands that failed for reasons of their own
  others,            \* actions of other users of the tmux server
  table0,            \* the session table main() started with
  raced              \* names whose new-session found the session already there

vars == <<SERVERS, table, pc, idx, issued, ret, session_count, sessions, selected_session,
          target, environ, input_read, typed, counted, tmux_installed, command_on_path,
          outcome, failures, others, table0, raced>>

NoName == <<>>
Running == [status |-> -1, cause |-> "running"]

\* os.environ: TMUX unset, set to the empty string, or set by a tmux client
Environs == {[set |-> FALSE, value |-> <<>>],
             [set |-> TRUE, value |-> <<>>],
             [set |-> TRUE, value |-> <<"/tmp/tmux-0/default,1,0">>]}
\* os.environ.get("TMUX"): the set of values returned, empty for None
environ_get(env) == IF env.set THEN {env.value} ELSE {}
\* a test for None only: `os.environ.get("TMUX") is None`
mutant_py_not(x) == x = {}

\* Python's `not x` for x a string or None
py_not(x) == x = {} \/ x = {<<>>}

\* what input() can return: the decimal text of k, or text int() rejects
Inputs(n) == {[numeric |-> TRUE, value |-> k] : k \in (-1)..(n + 2)}
               \cup {[numeric |-> FALSE, value |-> 0]}

Last(seq) == seq[Len(seq)]

\* the function whose statement pc is
Caller ==
  CASE pc \in {"check", "new_session", "rename_window", "send_keys_1", "split_window",
               "send_keys_2", "new_window", "send_keys_3", "select_window"}
         -> "create_server_session"
    [] pc \in {"list", "list_check", "list_windows"} -> "list_sessions"
    [] pc = "attach" -> "attach_session"
    [] OTHER -> "main"

\* one external command: who ran it, for which entry of SERVERS, and its exit code
Command(cmd, t, arg, rc) ==
  [by |-> Caller, entry |-> idx, cmd |-> cmd, target |-> t, arg |-> arg, rc |-> rc]

Init ==
  /\ SERVERS \in ServerLists
  /\ \E S \in SUBSET OtherNames : table = [n \in S |-> FreshSession]
  /\ table0 = table
  /\ pc = "probe"
  /\ idx = 0
  /\ issued = <<>>
  /\ ret = "-"
  /\ session_count = 0
  /\ sessions = <<>>
  /\ selected_session = 0
  /\ target = NoName
  /\ environ = [set |-> FALSE, value |-> <<>>]
  /\ input_read = FALSE
  /\ typed = [numeric |-> FALSE, value |-> 0]
  /\ counted = {}
  /\ tmux_installed \in BOOLEAN
  /\ command_on_path \in BOOLEAN
  /\ outcome = Running
  /\ failures = 0
  /\ others = 0
  /\ raced = {}

session_name == session_name_of(SERVERS[idx])
server_address == server_address_of(SERVERS[idx])

\* a check_session that tests the exit code the wrong way round
mutant_check_session(name) == TmuxHasSession(table, name) # 0

\* check_session(name): result.returncode == 0
check_session(name) == TmuxHasSession(table, name) = 0

\* subprocess.run of a tmux command that changes the server: it takes effect
\* when its target resolves and nothing else goes wrong; its exit code is
\* recorded and nothing in the program reads it
Run(cmd, t, arg, applicable, effect) ==
  \E spontaneous \in BOOLEAN :
    /\ spontaneous => (applicable /\ failures < MaxFail)
    /\ table' = IF applicable /\ ~spontaneous THEN effect ELSE table
    /\ issued' = Append(issued, Command(cmd, t, arg, IF applicable /\ ~spontaneous THEN 0 ELSE 1))
    /\ failures' = IF spontaneous THEN failures + 1 ELSE failures

\* subprocess.run of a tmux command that only reads the server
Query(cmd, t, arg, rc) ==
  /\ issued' = Append(issued, Command(cmd, t, arg, rc))
  /\ UNCHANGED <<table, failures>>

\* the next iteration of `for server in SERVERS`, or the statement after the loop
NextEntry(again, after) ==
  IF idx < Len(SERVERS)
  THEN /\ idx' = idx + 1
       /\ pc' = again
  ELSE /\ idx' = 0
       /\ pc' = after

Unread == <<session_count, sessions, selected_session, target, environ, input_read, typed,
            counted>>
Frame == <<SERVERS, others, table0, tmux_installed, command_on_path>>

\* ------------------------------------------------------------------ main()
\* subprocess.run(["command", "-v", "tmux"], ...).returncode != 0 -> exit(1).
\* "command" is run as a program, not through a shell: where no such program
\* is on the PATH, subprocess.run raises FileNotFoundError.
main_probe ==
  /\ pc = "probe"
  /\ LET probe == IF ~command_on_path THEN "no program"
                  ELSE IF tmux_installed THEN "found" ELSE "not found"
     IN
       CASE probe = "found" ->
              /\ issued' = Append(issued, Command("command -v", NoName, <<"tmux">>, 0))
              /\ idx' = 1
              /\ pc' = "check"
              /\ outcome' = outcome
         [] probe = "not found" ->
              /\ issued' = Append(issued, Command("command -v", NoName, <<"tmux">>, 1))
              /\ idx' = idx
              /\ pc' = "done"
              /\ outcome' = [status |-> 1, cause |-> "exit"]
         [] probe = "no program" ->
              /\ issued' = issued
              /\ idx' = idx
              /\ pc' = "done"
              /\ outcome' = [status |-> 1, cause |-> "FileNotFoundError"]
  /\ UNCHANGED <<table, ret, failures, raced>>
  /\ UNCHANGED Unread
  /\ UNCHANGED Frame

\* --------------------------------------------------- create_server_session
\* a create_server_session whose `return 0` is missing
mutant_create_check ==
  /\ pc = "check"
  /\ Query("has-session", session_name, <<>>, TmuxHasSession(table, session_name))
  /\ ret' = "-"
  /\ idx' = idx
  /\ pc' = "new_session"
  /\ UNCHANGED <<outcome, raced>>
  /\ UNCHANGED Unread
  /\ UNCHANGED Frame

\* if check_session(session_name): return 0
create_check ==
  /\ pc = "check"
  /\ Query("has-session", session_name, <<>>, TmuxHasSession(table, session_name))
  /\ IF check_session(session_name)
     THEN /\ ret' = "0"
          /\ NextEntry("check", "list")
     ELSE /\ ret' = "-"
          /\ idx' = idx
          /\ pc' = "new_session"
  /\ UNCHANGED <<outcome, raced>>
  /\ UNCHANGED Unread
  /\ UNCHANGED Frame

\* a create_server_session that returns when new-session finds the session
mutant_create_new_session ==
  /\ pc = "new_session"
  /\ Run("new-session", session_name, <<>>,
         TmuxNewSessionOk(table, session_name), TmuxNewSession(table, session_name))
  /\ raced' = IF session_name \in DOMAIN table THEN raced \cup {session_name} ELSE raced
  /\ IF session_name \in DOMAIN table
     THEN /\ ret' = "0"
          /\ NextEntry("check", "list")
     ELSE /\ ret' = ret
          /\ idx' = idx
          /\ pc' = "rename_window"
  /\ UNCHANGED outcome
  /\ UNCHANGED Unread
  /\ UNCHANGED Frame

\* subprocess.run(["tmux", "new-session", "-d", "-s", session_name])
create_new_session ==
  /\ pc = "new_session"
  /\ Run("new-session", session_name, <<>>,
         TmuxNewSessionOk(table, session_name), TmuxNewSession(table, session_name))
  /\ raced' = IF session_name \in DOMAIN table THEN raced \cup {session_name} ELSE raced
  /\ pc' = "rename_window"
  /\ UNCHANGED <<idx, ret, outcome>>
  /\ UNCHANGED Unread
  /\ UNCHANGED Frame

\* subprocess.run(["tmux", "rename-window", "-t", session_name, "main"])
create_rename_window ==
  /\ pc = "rename_window"
  /\ Run("rename-window", session_name, <<"main">>,
         Resolves(table, session_name), TmuxRenameWindow(table, session_name, "main"))
  /\ pc' = "send_keys_1"
  /\ UNCHANGED <<idx, ret, outcome, raced>>
  /\ UNCHANGED Unread
  /\ UNCHANGED Frame

\* subprocess.run(["tmux", "send-keys", "-t", session_name, f"ssh ...", "C-m"])
create_send_keys_1 ==
  /\ pc = "send_keys_1"
  /\ Run("send-keys", session_name, ssh_command(server_address),
         Resolves(table, session_name),
         TmuxSendKeys(table, session_name, ssh_command(server_address)))
  /\ pc' = "split_window"
  /\ UNCHANGED <<idx, ret, outcome, raced>>
  /\ UNCHANGED Unread
  /\ UNCHANGED Frame

\* a create_server_session without the split-window statement
mutant_create_split_window ==
  /\ pc = "split_window"
  /\ pc' = "send_keys_2"
  /\ UNCHANGED <<table, issued, failures, idx, ret, outcome, raced>>
  /\ UNCHANGED Unread
  /\ UNCHANGED Frame

\* subprocess.run(["tmux", "split-window", "-h", "-t", session_name])
create_split_window ==
  /\ pc = "split_window"
  /\ Run("split-window", session_name, <<"-h">>,
         Resolves(table, session_name), TmuxSplitWindow(table, session_name))
  /\ pc' = "send_keys_2"
  /\ UNCHANGED <<idx, ret, outcome, raced>>
  /\ UNCHANGED Unread
  /\ UNCHANGED Frame

\* subprocess.run(["tmux", "send-keys", "-t", session_name, f"ssh ...", "C-m"])
create_send_keys_2 ==
  /\ pc = "send_keys_2"
  /\ Run("send-keys", session_name, ssh_command(server_address),
         Resolves(table, session_name),
         TmuxSendKeys(table, session_name, ssh_command(server_address)))
  /\ pc' = "new_window"
  /\ UNCHANGED <<idx, ret, outcome, raced>>
  /\ UNCHANGED Unread
  /\ UNCHANGED Frame

\* a create_server_session that gives up when new-window fails
mutant_create_new_window ==
  /\ pc = "new_window"
  /\ Run("new-window", session_name, <<"monitoring">>,
         Resolves(table, session_name), TmuxNewWindow(table, session_name, "monitoring"))
  /\ IF Last(issued').rc # 0
     THEN /\ ret' = "1"
          /\ NextEntry("check", "list")
     ELSE /\ ret' = ret
          /\ idx' = idx
          /\ pc' = "send_keys_3"
  /\ UNCHANGED <<outcome, raced>>
  /\ UNCHANGED Unread
  /\ UNCHANGED Frame

\* subprocess.run(["tmux", "new-window", "-t", session_name, "-n", "monitoring"])
create_new_window ==
  /\ pc = "new_window"
  /\ Run("new-window", session_name, <<"monitoring">>,
         Resolves(table, session_name), TmuxNewWindow(table, session_name, "monitoring"))
  /\ pc' = "send_keys_3"
  /\ UNCHANGED <<idx, ret, outcome, raced>>
  /\ UNCHANGED Unread
  /\ UNCHANGED Frame

\* subprocess.run(["tmux", "send-keys", "-t", f"{session_name}:monitoring", f"ssh ... 'htop'", "C-m"])
create_send_keys_3 ==
  /\ pc = "send_keys_3"
  /\ Run("send-keys", window_target(session_name, "monitoring"), ssh_htop_command(server_address),
         Resolves(table, window_target(session_name, "monitoring")),
         TmuxSendKeys(table, window_target(session_name, "monitoring"),
                      ssh_htop_command(server_address)))
  /\ pc' = "select_window"
  /\ UNCHANGED <<idx, ret, outcome, raced>>
  /\ UNCHANGED Unread
  /\ UNCHANGED Frame

\* a main() whose loop over SERVERS ends after the first session it creates
mutant_create_select_window ==
  /\ pc = "select_window"
  /\ Run("select-window", window_target(session_name, "main"), <<>>,
         Resolves(table, window_target(session_name, "main")),
         TmuxSelectWindow(table, window_target(session_name, "main")))
  /\ ret' = "None"
  /\ idx' = 0
  /\ pc' = "list"
  /\ UNCHANGED <<outcome, raced>>
  /\ UNCHANGED Unread
  /\ UNCHANGED Frame

\* subprocess.run(["tmux", "select-window", "-t", f"{session_name}:main"]), and the
\* return at the end of the function, which returns None
create_select_window ==
  /\ pc = "select_window"
  /\ Run("select-window", window_target(session_name, "main"), <<>>,
         Resolves(table, window_target(session_name, "main")),
         TmuxSelectWindow(table, window_target(session_name, "main")))
  /\ ret' = "None"
  /\ NextEntry("check", "list")
  /\ UNCHANGED <<outcome, raced>>
  /\ UNCHANGED Unread
  /\ UNCHANGED Frame

\* ---------------------------------------------------------- list_sessions()
\* subprocess.run(["tmux", "list-sessions"]): prints the sessions
list_sessions_print ==
  /\ pc = "list"
  /\ Query("list-sessions", NoName, <<>>, IF DOMAIN table = {} THEN 1 ELSE 0)
  /\ idx' = 1
  /\ pc' = "list_check"
  /\ UNCHANGED <<ret, outcome, raced>>
  /\ UNCHANGED Unread
  /\ UNCHANGED Frame

\* for server in SERVERS: if check_session(session_name): ...
list_sessions_check ==
  /\ pc = "list_check"
  /\ Query("has-session", session_name, <<>>, TmuxHasSession(table, session_name))
  /\ IF check_session(session_name)
     THEN /\ idx' = idx
          /\ pc' = "list_windows"
     ELSE NextEntry("list_check", "count")
  /\ UNCHANGED <<ret, outcome, raced>>
  /\ UNCHANGED Unread
  /\ UNCHANGED Frame

\* subprocess.run(["tmux", "list-windows", "-t", session_name])
list_sessions_windows ==
  /\ pc = "list_windows"
  /\ Query("list-windows", session_name, <<>>, TmuxHasSession(table, session_name))
  /\ NextEntry("list_check", "count")
  /\ UNCHANGED <<ret, outcome, raced>>
  /\ UNCHANGED Unread
  /\ UNCHANGED Frame

\* --------------------------------------------------------- main(), step 4
\* the text tmux list-sessions writes, as its lines
\* stdout.strip().count('\n'): the line breaks between the lines
count_newlines(lines) == IF Len(lines) = 0 THEN 0 ELSE Len(lines) - 1
\* stdout.strip().split('\n'): the lines; of the empty text, one empty string
split_lines(lines) == IF Len(lines) = 0 THEN <<<<>>>> ELSE lines

\* session_count = int(subprocess.run(["tmux", "list-sessions"], ...)
\*                       .stdout.strip().count('\n')) + 1
\* and the branch on session_count > 1
main_count ==
  /\ pc = "count"
  /\ Query("list-sessions", NoName, <<>>, IF DOMAIN table = {} THEN 1 ELSE 0)
  /\ session_count' = count_newlines(TmuxListSessions(table)) + 1
  /\ IF session_count' > 1
     THEN /\ pc' = "menu"
          /\ target' = target
     ELSE /\ pc' = "attach"
          /\ target' = session_name_of(SERVERS[1])
  /\ counted' = DOMAIN table
  /\ UNCHANGED <<idx, ret, outcome, raced, sessions, selected_session, environ, input_read,
                 typed>>
  /\ UNCHANGED Frame

\* sessions = subprocess.run(["tmux", "list-sessions", "-F", "#{session_name}"], ...)
\*              .stdout.strip().split('\n'), printed as a numbered menu
main_menu ==
  /\ pc = "menu"
  /\ Query("list-sessions", NoName, <<"-F", "#{session_name}">>, IF DOMAIN table = {} THEN 1 ELSE 0)
  /\ sessions' = split_lines(TmuxListSessions(table))
  /\ pc' = "input"
  /\ UNCHANGED <<idx, ret, outcome, raced, session_count, selected_session, target, environ,
                 input_read, typed, counted>>
  /\ UNCHANGED Frame

\* a main() that forgets the `- 1` of the selection
mutant_main_input ==
  /\ pc = "input"
  /\ input_read' = TRUE
  /\ \E in \in Inputs(Len(sessions)) :
       /\ typed' = in
       /\ IF ~in.numeric
          THEN /\ outcome' = [status |-> 1, cause |-> "ValueError"]
               /\ pc' = "done"
               /\ UNCHANGED <<selected_session, target>>
          ELSE /\ selected_session' = in.value
               /\ IF 0 <= selected_session' /\ selected_session' < Len(sessions)
                  THEN /\ target' = sessions[selected_session' + 1]
                       /\ pc' = "attach"
                       /\ outcome' = outcome
                  ELSE /\ target' = target
                       /\ pc' = "done"
                       /\ outcome' = [status |-> 0, cause |-> "return"]
  /\ UNCHANGED <<table, idx, issued, ret, failures, raced, session_count, sessions, environ,
                 counted>>
  /\ UNCHANGED Frame

\* selected_session = int(input("Auswahl: ")) - 1
\* if 0 <= selected_session < len(sessions): attach_session(sessions[selected_session])
main_input ==
  /\ pc = "input"
  /\ input_read' = TRUE
  /\ \E in \in Inputs(Len(sessions)) :
       /\ typed' = in
       /\ IF ~in.numeric
          THEN /\ outcome' = [status |-> 1, cause |-> "ValueError"]
               /\ pc' = "done"
               /\ UNCHANGED <<selected_session, target>>
          ELSE /\ selected_session' = in.value - 1
               /\ IF 0 <= selected_session' /\ selected_session' < Len(sessions)
                  THEN /\ target' = sessions[selected_session' + 1]
                       /\ pc' = "attach"
                       /\ outcome' = outcome
                  ELSE /\ target' = target
                       /\ pc' = "done"
                       /\ outcome' = [status |-> 0, cause |-> "return"]
  /\ UNCHANGED <<table, idx, issued, ret, failures, raced, session_count, sessions, environ,
                 counted>>
  /\ UNCHANGED Frame

\* ------------------------------------------------------- attach_session()
\* if not os.environ.get("TMUX"): tmux attach-session -t session_name
\* else: tmux switch-client -t session_name
attach_session ==
  /\ pc = "attach"
  /\ \E env \in Environs :
       /\ environ' = env
       /\ IF py_not(environ_get(env))
          THEN Query("attach-session", target, <<>>, TmuxHasSession(table, target))
          ELSE Query("switch-client", target, <<>>, TmuxHasSession(table, target))
  /\ pc' = "done"
  /\ outcome' = [status |-> 0, cause |-> "return"]
  /\ UNCHANGED <<idx, ret, raced, session_count, sessions, selected_session, target, input_read,
                 typed, counted>>
  /\ UNCHANGED Frame

\* ------------------------------------------------- other users of the server
\* while the program runs, somebody else creates a session ...
other_new_session ==
  /\ pc \notin {"probe", "done"}
  /\ others < MaxOther
  /\ \E n \in OtherNames :
       /\ n \notin DOMAIN table
       /\ table' = TmuxNewSession(table, n)
  /\ others' = others + 1
  /\ UNCHANGED <<SERVERS, pc, idx, issued, ret, outcome, failures, table0, raced,
                 tmux_installed, command_on_path>>
  /\ UNCHANGED Unread

\* ... or kills one
other_kill_session ==
  /\ pc \notin {"probe", "done"}
  /\ others < MaxOther
  /\ \E n \in DOMAIN table : table' = TmuxKillSession(table, n)
  /\ others' = others + 1
  /\ UNCHANGED <<SERVERS, pc, idx, issued, ret, outcome, failures, table0, raced,
                 tmux_installed, command_on_path>>
  /\ UNCHANGED Unread

Next ==
  \/ main_probe
  \/ create_check
  \/ create_new_session
  \/ create_rename_window
  \/ create_send_keys_1
  \/ create_split_window
  \/ create_send_keys_2
  \/ create_new_window
  \/ create_send_keys_3
  \/ create_select_window
  \/ list_sessions_print
  \/ list_sessions_check
  \/ list_sessions_windows
  \/ main_count
  \/ main_menu
  \/ main_input
  \/ attach_session
  \/ other_new_session
  \/ other_kill_session

Spec == Init /\ [][Next]_vars

\* ------------------------------------------------------------- properties
Name(i) == session_name_of(SERVERS[i])
Address(i) == server_address_of(SERVERS[i])
Positions(cmds) == {p \in DOMAIN issued : issued[p].cmd \in cmds}
Attaches == Positions({"attach-session", "switch-client"})
CreationCommands ==
  {"new-session", "rename-window", "send-keys", "split-window", "new-window", "select-window"}
DistinctNames == \A i, j \in DOMAIN SERVERS : Name(i) = Name(j) => i = j
\* the program has run a command in this step
Issues == issued' # issued

\* C1: from an empty session table, with distinct configured names and every
\* tmux command succeeding, the loop over SERVERS leaves exactly one session
\* per name: window main with two panes, each having received the ssh line
\* once, window monitoring with one pane having received the ssh htop line,
\* and main selected.
C1_FreshLayout ==
  (/\ pc = "list"
   /\ DOMAIN table0 = {}
   /\ DistinctNames
   /\ failures = 0
   /\ others = 0)
  => /\ Cardinality(DOMAIN table) = Len(SERVERS)
     /\ DOMAIN table = {Name(i) : i \in DOMAIN SERVERS}
     /\ \A i \in DOMAIN SERVERS :
          LET s == table[Name(i)]
              ssh == <<"ssh", "-t", "-i", "~/.ssh/id_ed25519", Address(i)[1]>>
          IN /\ Len(s.windows) = 2
             /\ s.windows[1].name = "main"
             /\ s.windows[1].panes = <<<<ssh>>, <<ssh>>>>
             /\ s.windows[2].name = "monitoring"
             /\ s.windows[2].panes = <<<<ssh \o <<"'htop'">>>>>>
             /\ s.windows[s.active].name = "main"

C1_Witness ==
  /\ pc = "list"
  /\ DOMAIN table0 = {}
  /\ failures = 0
  /\ others = 0
  /\ Len(SERVERS) = 2
  /\ Cardinality(DOMAIN table) = 2
  /\ Last(issued).cmd = "select-window"

\* C2: a call of create_server_session for a name that is in the session
\* table runs has-session and nothing else, returns 0 and leaves the whole
\* table as it was.
C2_ExistingUntouched ==
  [][(/\ pc = "check"
      /\ Issues
      /\ Name(idx) \in DOMAIN table)
     => /\ issued' = Append(issued, [by |-> "create_server_session", entry |-> idx,
                                     cmd |-> "has-session", target |-> Name(idx),
                                     arg |-> <<>>, rc |-> 0])
        /\ table' = table
        /\ ret' = "0"
        /\ pc' \in {"check", "list"}
        /\ (pc' = "check" => idx' = idx + 1)]_vars

C2_Witness ==
  /\ pc = "list"
  /\ ret = "0"
  /\ Len(SERVERS) = 1
  /\ Name(1) \in DOMAIN table0
  /\ table = table0
  /\ Len(issued) = 2

\* C7: check_session(name) is true exactly when the session table holds a
\* session called name at the moment of the query (the caller takes the
\* "exists" branch exactly then), and the query leaves the table unchanged.
C7_CheckSession ==
  [][(Issues /\ Last(issued').cmd = "has-session")
     => LET name == Last(issued').target
            exists == name \in DOMAIN table
        IN /\ table' = table
           /\ Last(issued').rc = 0 <=> exists
           /\ pc = "check" => (pc' = "new_session" <=> ~exists)
           /\ pc = "list_check" => (pc' = "list_windows" <=> exists)]_vars

C7_Witness ==
  /\ \E p \in Positions({"has-session"}) : issued[p].rc = 0
  /\ \E p \in Positions({"has-session"}) : issued[p].rc # 0
  /\ pc = "list_windows"

\* C3: attach_session runs attach-session when TMUX is unset or empty and
\* switch-client when it is set, never both and never neither; with exactly
\* one session counted at step 4 the run ends having run exactly one of them.
C3_AttachOrSwitch ==
  LET A == Positions({"attach-session"})
      S == Positions({"switch-client"})
      unset_or_empty == ~environ.set \/ environ.value = <<>>
  IN /\ Cardinality(A \cup S) <= 1
     /\ A # {} => unset_or_empty
     /\ S # {} => ~unset_or_empty
     /\ (pc = "done" /\ target # NoName) => Cardinality(A \cup S) = 1
     /\ pc # "done" => A \cup S = {}
     /\ (pc = "done" /\ Cardinality(counted) = 1)
          => /\ Cardinality(A \cup S) = 1
             /\ unset_or_empty => (A # {} /\ S = {})
             /\ ~unset_or_empty => (S # {} /\ A = {})

C3_Witness ==
  /\ pc = "done"
  /\ Cardinality(counted) = 1
  /\ environ.set
  /\ environ.value = <<>>
  /\ Positions({"attach-session"}) # {}

\* C4: with N > 1 sessions counted and shown in the menu, an entered integer
\* k in 1..N attaches or switches to the k-th name of the menu, and any other
\* integer runs neither command and the program ends normally.
C4_MenuSelection ==
  (/\ input_read
   /\ typed.numeric
   /\ Cardinality(counted) > 1
   /\ {sessions[x] : x \in DOMAIN sessions} = counted)
  => LET N == Cardinality(counted)
         k == typed.value
     IN /\ Len(sessions) = N
        /\ IF 1 <= k /\ k <= N
           THEN /\ pc \in {"attach", "done"}
                /\ target = sessions[k]
                /\ pc = "attach" => Attaches = {}
                /\ pc = "done" =>
                     /\ Cardinality(Attaches) = 1
                     /\ \A p \in Attaches : issued[p].target = sessions[k]
           ELSE /\ pc = "done"
                /\ Attaches = {}
                /\ outcome = [status |-> 0, cause |-> "return"]

C4_Witness ==
  /\ pc = "done"
  /\ input_read
  /\ typed.numeric
  /\ Cardinality(counted) = 3
  /\ {sessions[x] : x \in DOMAIN sessions} = counted
  /\ typed.value = 3
  /\ \E p \in Attaches : issued[p].target = sessions[3]

\* C5: whenever exactly one session is counted at step 4, the run attaches or
\* switches to that session, and reads no input (stated here for the runs in
\* which no other user touches the server).
C5_SoleSessionAttached ==
  (pc = "done" /\ Cardinality(counted) = 1 /\ others = 0)
  => /\ ~input_read
     /\ Cardinality(Attaches) = 1
     /\ \A p \in Attaches : issued[p].target \in counted

\* C6: without tmux the run ends with status 1 having run no tmux command and
\* read no input; with tmux it reaches the loop over SERVERS and ends with
\* status 0 or in the failure of int() to parse the input.
C6_ProbeDecides ==
  pc = "done"
  => IF ~tmux_installed
     THEN /\ outcome.status = 1
          /\ \A p \in DOMAIN issued : issued[p].cmd = "command -v"
          /\ ~input_read
     ELSE /\ \E p \in DOMAIN issued : issued[p].cmd = "has-session"
          /\ outcome.cause \in {"return", "ValueError"}

\* the statements of create_server_session after the existence check, and the
\* command each one runs for entry i of SERVERS
StagePc ==
  <<"new_session", "rename_window", "send_keys_1", "split_window", "send_keys_2",
    "new_window", "send_keys_3", "select_window">>
Expected(i) ==
  LET ssh == <<"ssh", "-t", "-i", "~/.ssh/id_ed25519", Address(i)[1]>>
  IN <<[cmd |-> "new-session", target |-> Name(i), arg |-> <<>>],
       [cmd |-> "rename-window", target |-> Name(i), arg |-> <<"main">>],
       [cmd |-> "send-keys", target |-> Name(i), arg |-> ssh],
       [cmd |-> "split-window", target |-> Name(i), arg |-> <<"-h">>],
       [cmd |-> "send-keys", target |-> Name(i), arg |-> ssh],
       [cmd |-> "new-window", target |-> Name(i), arg |-> <<"monitoring">>],
       [cmd |-> "send-keys", target |-> Name(i) \o <<":", "monitoring">>,
        arg |-> ssh \o <<"'htop'">>],
       [cmd |-> "select-window", target |-> Name(i) \o <<":", "main">>, arg |-> <<>>]>>
\* the positions of the existence checks of create_server_session that said no
Absent ==
  {p \in Positions({"has-session"}) : issued[p].by = "create_server_session" /\ issued[p].rc # 0}

\* C8: once check_session has returned false, create_server_session runs its
\* eight commands in their fixed order, each whatever the exit codes of the
\* ones before, and returns None.
C8_FixedSequence ==
  [][(pc \in {"check"} \cup {StagePc[k] : k \in 1..8} /\ (Issues \/ pc' # pc \/ idx' # idx))
     => /\ Len(issued') = Len(issued) + 1
        /\ Last(issued').by = "create_server_session"
        /\ Last(issued').entry = idx
        /\ IF pc = "check"
           THEN Last(issued').rc # 0 => (pc' = "new_session" /\ idx' = idx)
           ELSE LET k == CHOOSE j \in 1..8 : StagePc[j] = pc
                IN /\ [cmd |-> Last(issued').cmd, target |-> Last(issued').target,
                       arg |-> Last(issued').arg] = Expected(idx)[k]
                   /\ k < 8 => (pc' = StagePc[k + 1] /\ idx' = idx /\ ret' = ret)
                   /\ k = 8 => (ret' = "None" /\ pc' \in {"check", "list"})]_vars

C8_Witness ==
  \E p \in Absent :
    /\ Len(issued) = p + 8
    /\ issued[p + 4].rc # 0
    /\ issued[p + 8].rc = 0
    /\ ret = "None"
    /\ Len(table[Name(issued[p].entry)].windows[1].panes) = 1
    /\ Len(table[Name(issued[p].entry)].windows) = 2

\* new-session run while the session is already there: it fails, changes
\* nothing, and the program goes on with rename-window
C9_Step ==
  (pc = "new_session" /\ Issues /\ Name(idx) \in DOMAIN table)
  => /\ Last(issued').cmd = "new-session"
     /\ Last(issued').rc # 0
     /\ table' = table
     /\ pc' = "rename_window"
     /\ outcome' = Running
\* a session another user created between check and create, after the call
C9_State ==
  \A i \in DOMAIN SERVERS :
    (/\ Name(i) \in raced
     /\ Last(issued).cmd = "select-window"
     /\ Last(issued).entry = i
     /\ others = 1
     /\ failures = 0)
    => /\ Name(i) \in DOMAIN table
       /\ table[Name(i)] # FreshSession
       /\ Len(table[Name(i)].windows) = 2
       /\ table[Name(i)].windows[1].name = "main"
       /\ Len(table[Name(i)].windows[1].panes) = 2
       /\ \A k \in 2..8 : issued[Len(issued) - 8 + k].rc = 0
\* C9: when the session appears between the existence check and new-session,
\* new-session fails, the program goes on, and the remaining commands
\* configure the session the other user created.
C9_CheckThenCreateRace == []C9_State /\ [][C9_Step]_vars

C9_Witness ==
  /\ Name(1) \in raced
  /\ Last(issued).cmd = "select-window"
  /\ Last(issued).entry = 1
  /\ others = 1
  /\ failures = 0
  /\ issued[Len(issued) - 7].rc = 1
  /\ Len(table[Name(1)].windows) = 2

\* C10: a run is one linear pass: the probe, then the entries of SERVERS one
\* after another in list order, each checked once and all its commands run
\* before the next entry's check, then the listing, which starts after the
\* last entry, then the count and the menu, then at most one attach or
\* switch; no creation command follows the start of the listing.
C10_LinearPass ==
  [][Issues =>
       LET p == Len(issued')
           log == issued'
           step(q) == CASE log[q].by = "create_server_session" -> 2
                        [] log[q].by = "list_sessions" -> 3
                        [] log[q].by = "attach_session" -> 5
                        [] log[q].cmd = "command -v" -> 1
                        [] OTHER -> 4
       IN /\ p = Len(issued) + 1
          /\ SubSeq(log, 1, p - 1) = issued
          /\ log[p].cmd \in CreationCommands => step(p) = 2
          /\ log[p].cmd = "list-windows" => step(p) = 3
          /\ log[p].cmd = "list-sessions" => step(p) \in {3, 4}
          /\ log[p].cmd \in {"attach-session", "switch-client"} <=> step(p) = 5
          /\ p = 1 => step(p) = 1
          /\ p > 1 =>
               /\ step(p - 1) <= step(p)
               /\ step(p - 1) < 5
               /\ step(p) > 1
               /\ (step(p - 1) = 2 /\ step(p) = 2) =>
                    IF log[p].cmd = "has-session"
                    THEN log[p].entry = log[p - 1].entry + 1
                    ELSE log[p].entry = log[p - 1].entry
               /\ (step(p - 1) < 2 /\ step(p) = 2) =>
                    (log[p].cmd = "has-session" /\ log[p].entry = 1)
               /\ (step(p - 1) = 2 /\ step(p) > 2) =>
                    (step(p) = 3 /\ log[p - 1].entry = Len(SERVERS))
               /\ step(p) = 4 => step(p - 1) \in {3, 4}
               /\ step(p) = 5 => step(p - 1) = 4]_vars

C10_Witness ==
  /\ pc = "done"
  /\ Attaches # {}
  /\ Len(SERVERS) = 2
  /\ Cardinality(Positions({"new-session"})) = 2
  /\ input_read

====
